---- MODULE Spec2Model ----
(***************************************************************************)
(* PhoneGPT / MentraOS bridge (src/backend/main.py).                       *)
(*                                                                         *)
(* The server keeps two module-level objects, the session registry         *)
(* session_states and the bounded deque event_queue, and runs its handlers *)
(* as asyncio coroutines on one event loop: a handler runs without         *)
(* interruption up to an `await display_on_glasses(...)`, where any other  *)
(* handler may run.  Every action below is one handler from its entry (or  *)
(* from the await it resumes at) up to its next await or its return.       *)
(*                                                                         *)
(* Python strings are TLA+ strings; the emoji that prefix the two fixed    *)
(* display messages are left out of the string constants.  The timestamp   *)
(* field of an event and of a response is wall-clock time that no code     *)
(* reads back; it is not modelled.                                         *)
(***************************************************************************)
EXTENDS Integers, Sequences, FiniteSets, TLC

VARIABLES
    session_states,  \* main.py:82   dict: session id -> SessionData, or NoSession
    session_keys,    \* main.py:82   insertion order of the dict's keys
    event_queue,     \* main.py:86   deque(maxlen=...)
    next_oid,        \* identity of the next SessionData object constructed
    tasks,           \* coroutines suspended at an await, one per slot
    ops,             \* number of state-changing handler invocations so far
    appendLog,       \* history: every record ever passed to event_queue.append
    cleared,         \* history: Len(appendLog) at the most recent clear
    response,        \* what the step just taken returned to its caller, if it returned
    poller           \* the polling client: the answers to its polls, at most two

vars == <<session_states, session_keys, event_queue, next_oid, tasks, ops,
          appendLog, cleared, response, poller>>

-----------------------------------------------------------------------------
(* Bounds of the model *)

\* capacity of event_queue in the model (deque(maxlen=1000) in the code)
QueueCap == 2
\* state-changing handler invocations in one behaviour
MaxOps == 3

(* Program constants *)
DefaultLimit == 100
DefaultDuration == 5000
WelcomeDuration == 3000
ProcessingDuration == 2000
PreviewLen == 50
HistoryTail == 10

(* Inputs *)
SessionIds == {"s1", "s2"}
UserIds == {"u1"}
TaskIds == {"t1", "t2"}
LongChunk == "the quick brown fox jumps over the lazy dog and runs away"
Chunks == {"par", LongChunk}
Texts == {"", "hello"}
Sinces == 0 .. QueueCap
Limits == {1, DefaultLimit}

\* Python's None
NONE == "<None>"
\* absence of a key in session_states
NoSession == [oid |-> 0]

LISTENING == "listening"
PROCESSING == "processing"
DISPLAYING == "displaying"

-----------------------------------------------------------------------------
(* Helpers *)

Min(a, b) == IF a <= b THEN a ELSE b
Max(a, b) == IF a >= b THEN a ELSE b

\* truth value of an Optional[str] in `if session_id and ...`, `if not text`
Truthy(v) == v # NONE /\ v # ""

\* s[a:b] for 0 <= a, 0 <= b  (Python slice of a list or a string)
Slice(s, a, b) == SubSeq(s, a + 1, Min(b, Len(s)))

\* s[-n:] for n > 0
Tail_n(s, n) == SubSeq(s, Max(1, Len(s) - n + 1), Len(s))

IsSpace(c) == c \in {" ", "\t", "\n", "\r"}

RECURSIVE lstrip(_)
lstrip(s) ==
    IF Len(s) > 0 /\ IsSpace(SubSeq(s, 1, 1))
    THEN lstrip(SubSeq(s, 2, Len(s)))
    ELSE s

RECURSIVE rstrip(_)
rstrip(s) ==
    IF Len(s) > 0 /\ IsSpace(SubSeq(s, Len(s), Len(s)))
    THEN rstrip(SubSeq(s, 1, Len(s) - 1))
    ELSE s

\* str.strip()
strip(s) == rstrip(lstrip(s))

InRegistry(sid) == sid \in SessionIds /\ session_states[sid] # NoSession

\* SessionData() with its defaults; oid is the identity of the new object, and
\* received is history: the chunks handle_transcription was given for it
SessionData(oid) ==
    [oid |-> oid, state |-> LISTENING, current_transcript |-> "",
     last_response |-> "", event_history |-> <<>>, received |-> <<>>]

\* a deque that, when full, drops the record offered instead of the oldest one
deque_append_keep_old(q, e, cap) ==
    IF Len(q) < cap THEN Append(q, e) ELSE q

\* deque.append on a deque with maxlen = cap
deque_append(q, e, cap) ==
    IF Len(q) < cap THEN Append(q, e) ELSE Append(SubSeq(q, 2, Len(q)), e)

Event(event_type, data, session_id) ==
    [type |-> event_type, data |-> data, session_id |-> session_id]

\* add_event: the queue after the call
add_event_queue(q, event) == deque_append(q, event, QueueCap)

\* add_event: the registry after the call
add_event_sessions(ss, event) ==
    IF Truthy(event.session_id) /\ event.session_id \in SessionIds
       /\ ss[event.session_id] # NoSession
    THEN [ss EXCEPT ![event.session_id].event_history = Append(@, event)]
    ELSE ss

\* the text of the "processing" message of handle_transcription
ProcessingMessage(transcript_text) ==
    "Processing:\n\"" \o Slice(transcript_text, 0, PreviewLen) \o "...\""

WelcomeMessage == "PhoneGPT Connected\n\nReady for voice commands!"

\* one call of display_on_glasses
DisplayCall(session_id, text, duration_ms) ==
    [session_id |-> session_id, text |-> text, duration_ms |-> duration_ms]

\* display_on_glasses, lines 105-119: whether the device call at lines 108-116
\* raises is the device's choice; an exception is caught and logged at lines
\* 118-119, so the caller is never raised at and is returned nothing
display_on_glasses(call, device_raises) ==
    [raised |-> FALSE, shown |-> ~device_raises]

Idle == [pc |-> "idle"]

\* the step taken suspended its handler at an await: nothing was returned
NoResponse == [op |-> "none"]

-----------------------------------------------------------------------------
Init ==
    /\ session_states = [s \in SessionIds |-> NoSession]
    /\ session_keys = <<>>
    /\ event_queue = <<>>
    /\ next_oid = 1
    /\ tasks = [t \in TaskIds |-> Idle]
    /\ ops = 0
    /\ appendLog = <<>>
    /\ cleared = 0
    /\ response = NoResponse
    /\ poller = <<>>

\* a handler invocation that changes state is admitted while the budget lasts
Admit == ops < MaxOps


\* the slot a new coroutine is put in
FreeSlot == CHOOSE t \in TaskIds : tasks[t] = Idle
HasFreeSlot == \E t \in TaskIds : tasks[t] = Idle

\* history kept with a suspended coroutine: the number of records appended when
\* it suspended, the number of invocations begun by then, and whether it was
\* the only coroutine in flight
Began(appended) ==
    [appended |-> appended, ops |-> ops + 1, solo |-> \A t \in TaskIds : tasks[t] = Idle]

\* an add_event that drops voice_input records
add_event_no_voice(event) ==
    /\ event_queue' = IF event.type = "voice_input" THEN event_queue
                      ELSE add_event_queue(event_queue, event)
    /\ appendLog' = IF event.type = "voice_input" THEN appendLog
                    ELSE Append(appendLog, event)

\* an add_event that drops display_request records
add_event_no_audit(event) ==
    /\ event_queue' = IF event.type = "display_request" THEN event_queue
                      ELSE add_event_queue(event_queue, event)
    /\ appendLog' = IF event.type = "display_request" THEN appendLog
                    ELSE Append(appendLog, event)

\* add_event, lines 93-99: the record is appended to the deque
add_event(event) ==
    /\ event_queue' = add_event_queue(event_queue, event)
    /\ appendLog' = Append(appendLog, event)

\* dict: the key order after session_states[sid] = ...
keys_set(keys, sid) ==
    IF \E i \in 1 .. Len(keys) : keys[i] = sid THEN keys ELSE Append(keys, sid)

\* dict: the keys, in their order, that a deletion leaves in the dict ss
Registered(ss, keys) == SelectSeq(keys, LAMBDA k : ss[k] # NoSession)

-----------------------------------------------------------------------------
(* handle_session_start, lines 124-157 *)

\* lines 135-148: up to the await of the welcome display
handle_session_start(session_id, user_id) ==
    LET event == Event("app_activated",
                       [session_id |-> session_id, user_id |-> user_id], session_id)
        created == [session_states EXCEPT ![session_id] = SessionData(next_oid)]
    IN  /\ Admit
        /\ HasFreeSlot
        /\ session_states' = add_event_sessions(created, event)
        /\ session_keys' = keys_set(session_keys, session_id)
        /\ next_oid' = next_oid + 1
        /\ add_event(event)
        /\ tasks' = [tasks EXCEPT ![FreeSlot] =
                        [pc |-> "start_await", op |-> "handle_session_start",
                         session_id |-> session_id,
                         calls |-> <<DisplayCall(session_id, WelcomeMessage,
                                                 WelcomeDuration)>>,
                         began |-> Began(Len(appendLog) + 1)]]
        /\ ops' = ops + 1
        /\ response' = NoResponse
        /\ UNCHANGED <<cleared, poller>>

\* lines 150-157: the transcription callback is registered with the SDK session
session_start_resume(t) ==
    /\ tasks[t].pc = "start_await"
    /\ tasks' = [tasks EXCEPT ![t] = Idle]
    /\ \E device_raises \in BOOLEAN :
          response' = [op |-> "handle_session_start",
                       session_id |-> tasks[t].session_id,
                       calls |-> tasks[t].calls,
                       shown |-> <<display_on_glasses(tasks[t].calls[1],
                                                      device_raises).shown>>]
    /\ UNCHANGED <<session_states, session_keys, event_queue, next_oid, ops,
                   appendLog, cleared,
                   poller>>

-----------------------------------------------------------------------------
(* handle_session_end, lines 160-174 *)

\* a deletion that leaves the key in the dict
dict_del_noop(ss, key) == [raised |-> FALSE, dict |-> ss]

\* del d[key]: KeyError when the key is absent
dict_del(ss, key) ==
    IF ss[key] = NoSession
    THEN [raised |-> TRUE, dict |-> ss]
    ELSE [raised |-> FALSE, dict |-> [ss EXCEPT ![key] = NoSession]]

\* a cleanup that deletes the key without looking for it
session_end_cleanup_unguarded(ss, session_id) == dict_del(ss, session_id)

\* a cleanup that leaves the entry in the registry
session_end_cleanup_keep(ss, session_id) == [raised |-> FALSE, dict |-> ss]

\* lines 173-174
session_end_cleanup(ss, session_id) ==
    IF ss[session_id] # NoSession
    THEN dict_del(ss, session_id)
    ELSE [raised |-> FALSE, dict |-> ss]

handle_session_end(session_id) ==
    LET event == Event("app_deactivated", [session_id |-> session_id], session_id)
        cleaned == session_end_cleanup(add_event_sessions(session_states, event),
                                       session_id)
    IN  /\ Admit
        /\ add_event(event)
        /\ session_states' = cleaned.dict
        /\ session_keys' =
              [i \in 1 .. Len(Registered(cleaned.dict, session_keys)) |->
                  Registered(cleaned.dict, session_keys)[i]]
        /\ ops' = ops + 1
        /\ response' = [op |-> "handle_session_end", session_id |-> session_id,
                        raised |-> cleaned.raised]
        /\ UNCHANGED <<next_oid, tasks, cleared, poller>>

-----------------------------------------------------------------------------
(* handle_transcription, lines 177-217.  The SDK calls it through the callback
   that handle_session_start registers at lines 153-155; here it may be called
   for any session id at any time, which includes every call the SDK makes. *)

\* line 184
transcript_add(current_transcript, text) == current_transcript \o " " \o text

\* lines 179-181: no session for the id
transcription_unknown(session_id, text, is_final) ==
    /\ ~InRegistry(session_id)
    /\ response' = [op |-> "handle_transcription", session_id |-> session_id,
                text |-> text, is_final |-> is_final, handled |-> FALSE,
                calls |-> <<>>]
    /\ UNCHANGED <<session_states, session_keys, event_queue, next_oid, tasks,
                   ops, appendLog, cleared,
                   poller>>

\* lines 179-188: a chunk that is not final
transcription_partial(session_id, text) ==
    /\ Admit
    /\ InRegistry(session_id)
    /\ session_states' =
          [session_states EXCEPT
              ![session_id].current_transcript = transcript_add(@, text),
              ![session_id].received = Append(@, text)]
    /\ ops' = ops + 1
    /\ response' = [op |-> "handle_transcription", session_id |-> session_id,
                text |-> text, is_final |-> FALSE, handled |-> TRUE,
                calls |-> <<>>]
    /\ UNCHANGED <<session_keys, event_queue, next_oid, tasks, appendLog, cleared, poller>>

\* lines 179-213: a final chunk, up to the await of the processing display
transcription_final(session_id, text) ==
    LET state == session_states[session_id]
        current_transcript == transcript_add(state.current_transcript, text)
        transcript_text == strip(current_transcript)
        event == Event("voice_input",
                       [transcript |-> transcript_text, session_id |-> session_id,
                        is_final |-> TRUE], session_id)
        added == [session_states EXCEPT
                     ![session_id].current_transcript = current_transcript,
                     ![session_id].received = Append(@, text)]
        logged == add_event_sessions(added, event)
    IN  /\ Admit
        /\ HasFreeSlot
        /\ InRegistry(session_id)
        /\ add_event(event)
        /\ session_states' = [logged EXCEPT ![session_id].state = PROCESSING]
        /\ tasks' = [tasks EXCEPT ![FreeSlot] =
                        [pc |-> "tr_await", op |-> "handle_transcription",
                         session_id |-> session_id, oid |-> state.oid,
                         text |-> text, transcript_text |-> transcript_text,
                         calls |-> <<DisplayCall(session_id,
                                                 ProcessingMessage(transcript_text),
                                                 ProcessingDuration)>>,
                         began |-> Began(Len(appendLog) + 1)]]
        /\ ops' = ops + 1
        /\ response' = NoResponse
        /\ UNCHANGED <<session_keys, next_oid, cleared, poller>>

\* a reset that leaves the state as it is
transcription_reset_transcript_only(ss, session_id, oid) ==
    IF ss[session_id].oid = oid
    THEN [ss EXCEPT ![session_id].current_transcript = ""]
    ELSE ss

\* a reset that leaves the transcript buffer as it is
transcription_reset_state_only(ss, session_id, oid) ==
    IF ss[session_id].oid = oid
    THEN [ss EXCEPT ![session_id].state = LISTENING]
    ELSE ss

\* lines 216-217 write to the object looked up at line 179; an object that has
\* left the registry since (session ended or started anew) is reachable from
\* nowhere else, and the writes to it are seen by nobody
transcription_reset(ss, session_id, oid) ==
    IF ss[session_id].oid = oid
    THEN [ss EXCEPT ![session_id].current_transcript = "",
                    ![session_id].state = LISTENING]
    ELSE ss

\* lines 215-217: after the await
transcription_resume(t) ==
    /\ tasks[t].pc = "tr_await"
    /\ session_states' =
          transcription_reset(session_states, tasks[t].session_id, tasks[t].oid)
    /\ tasks' = [tasks EXCEPT ![t] = Idle]
    /\ \E device_raises \in BOOLEAN :
          response' = [op |-> "handle_transcription",
                       session_id |-> tasks[t].session_id,
                       text |-> tasks[t].text, is_final |-> TRUE, handled |-> TRUE,
                       calls |-> tasks[t].calls,
                       shown |-> <<display_on_glasses(tasks[t].calls[1],
                                                      device_raises).shown>>]
    /\ UNCHANGED <<session_keys, event_queue, next_oid, ops, appendLog, cleared, poller>>

\* the handler from its entry
handle_transcription(session_id, text, is_final) ==
    \/ transcription_unknown(session_id, text, is_final)
    \/ ~is_final /\ transcription_partial(session_id, text)
    \/ is_final /\ transcription_final(session_id, text)

-----------------------------------------------------------------------------
(* display_text, lines 271-336 *)

\* what the handler answers, kept in `response`
DisplayResult(text, session_id, status, displayed, calls, shown) ==
    [op |-> "display_text", text |-> text, session_id |-> session_id,
     status |-> status, sessions |-> displayed, calls |-> calls, shown |-> shown]

\* a text test that lets every text through
text_missing_never(text) == FALSE

\* line 292
text_missing(text) == ~Truthy(text)

\* a target test that does not look the session id up in the registry
display_targeted_unchecked(session_id) == Truthy(session_id)

\* line 297
display_targeted(session_id) == Truthy(session_id) /\ InRegistry(session_id)

\* line 307
display_broadcast(session_id) == ~Truthy(session_id) /\ session_keys # <<>>

\* lines 292-293: HTTPException(400)
display_invalid(text, session_id) ==
    /\ text_missing(text)
    /\ response' = DisplayResult(text, session_id, 400, <<>>, <<>>, <<>>)
    /\ UNCHANGED <<session_states, session_keys, event_queue, next_oid, tasks,
                   ops, appendLog, cleared,
                   poller>>

\* lines 295-320 with neither branch taken: HTTPException(404)
display_none(text, session_id) ==
    /\ ~text_missing(text)
    /\ ~display_targeted(session_id)
    /\ ~display_broadcast(session_id)
    /\ response' = DisplayResult(text, session_id, 404, <<>>, <<>>, <<>>)
    /\ UNCHANGED <<session_states, session_keys, event_queue, next_oid, tasks,
                   ops, appendLog, cleared,
                   poller>>

\* lines 295-299 and 307-310: up to the first await
display_begin(text, session_id) ==
    LET keys == IF display_targeted(session_id) THEN <<session_id>> ELSE session_keys
    IN  /\ Admit
        /\ HasFreeSlot
        /\ ~text_missing(text)
        /\ display_targeted(session_id) \/ display_broadcast(session_id)
        /\ tasks' = [tasks EXCEPT ![FreeSlot] =
                        [pc |-> "disp_await", op |-> "display_text",
                         text |-> text, session_id |-> session_id,
                         duration |-> DefaultDuration,
                         sid |-> Head(keys), rest |-> Tail(keys),
                         displayed |-> <<>>, shown |-> <<>>,
                         calls |-> <<DisplayCall(Head(keys), text,
                                                 DefaultDuration)>>,
                         began |-> Began(Len(appendLog))]]
        /\ ops' = ops + 1
        /\ response' = NoResponse
        /\ UNCHANGED <<session_states, session_keys, event_queue, next_oid,
                       appendLog, cleared,
                   poller>>

\* an update that leaves last_response as it was
display_update_state_only(ss, sid, text) ==
    [ss EXCEPT ![sid].state = DISPLAYING]

\* lines 303-305 and 314-316
display_update(ss, sid, text) ==
    [ss EXCEPT ![sid].last_response = text, ![sid].state = DISPLAYING]

\* lines 300-303 or 311-314 after the await: session_states[sid] raises KeyError
\* when the session has ended meanwhile; the request ends with HTTP 500
display_resume_keyerror(t) ==
    /\ tasks[t].pc = "disp_await"
    /\ ~InRegistry(tasks[t].sid)
    /\ tasks' = [tasks EXCEPT ![t] = Idle]
    /\ \E device_raises \in BOOLEAN :
          response' =
              DisplayResult(tasks[t].text, tasks[t].session_id, 500,
                            Append(tasks[t].displayed, tasks[t].sid), tasks[t].calls,
                            Append(tasks[t].shown,
                                   display_on_glasses(tasks[t].calls[Len(tasks[t].calls)],
                                                      device_raises).shown))
    /\ UNCHANGED <<session_states, session_keys, event_queue, next_oid, ops,
                   appendLog, cleared,
                   poller>>

\* lines 311-316 and 309-310: the loop goes on to the next session id
display_resume_next(t) ==
    LET task == tasks[t]
        next == Head(task.rest)
    IN  /\ task.pc = "disp_await"
        /\ InRegistry(task.sid)
        /\ task.rest # <<>>
        /\ session_states' = display_update(session_states, task.sid, task.text)
        /\ \E device_raises \in BOOLEAN :
              tasks' = [tasks EXCEPT ![t] =
                          [task EXCEPT
                              !.sid = next, !.rest = Tail(task.rest),
                              !.displayed = Append(@, task.sid),
                              !.shown =
                                  Append(@, display_on_glasses(
                                                task.calls[Len(task.calls)],
                                                device_raises).shown),
                              !.calls = Append(@, DisplayCall(next, task.text,
                                                              task.duration))]]
        /\ response' = NoResponse
        /\ UNCHANGED <<session_keys, event_queue, next_oid, ops, appendLog,
                       cleared,
                   poller>>

\* lines 300-305 or 311-316 for the last session id, then lines 318-336
display_resume_done(t) ==
    LET task == tasks[t]
        displayed == Append(task.displayed, task.sid)
        event == Event("display_request",
                       [text |-> task.text, sessions |-> displayed,
                        duration |-> task.duration], NONE)
        updated == display_update(session_states, task.sid, task.text)
    IN  /\ task.pc = "disp_await"
        /\ InRegistry(task.sid)
        /\ task.rest = <<>>
        /\ add_event(event)
        /\ session_states' = add_event_sessions(updated, event)
        /\ tasks' = [tasks EXCEPT ![t] = Idle]
        /\ \E device_raises \in BOOLEAN :
              response' =
                  DisplayResult(task.text, task.session_id, 200, displayed,
                                task.calls,
                                Append(task.shown,
                                       display_on_glasses(task.calls[Len(task.calls)],
                                                          device_raises).shown))
        /\ UNCHANGED <<session_keys, next_oid, ops, cleared, poller>>

\* the handler from its entry
display_text(text, session_id) ==
    \/ display_invalid(text, session_id)
    \/ display_none(text, session_id)
    \/ display_begin(text, session_id)

\* the handler from an await
display_resume(t) ==
    \/ display_resume_keyerror(t)
    \/ display_resume_next(t)
    \/ display_resume_done(t)

-----------------------------------------------------------------------------
(* get_events, lines 249-268 *)

\* an answer whose slice starts one position late
get_events_response_late(events_list, since, limit) ==
    LET new_events == Slice(events_list, since + 1, since + 1 + limit)
    IN  [events |-> new_events,
         count |-> Len(events_list),
         last_index |-> Min(since + Len(new_events), Len(events_list))]

\* an answer that returns every record from since on, whatever the limit
get_events_response_unlimited(events_list, since, limit) ==
    LET new_events == Slice(events_list, since, Len(events_list))
    IN  [events |-> new_events,
         count |-> Len(events_list),
         last_index |-> Min(since + Len(new_events), Len(events_list))]

\* an answer that gives the size of the queue as the cursor to go on from
get_events_response_count(events_list, since, limit) ==
    [events |-> Slice(events_list, since, since + limit),
     count |-> Len(events_list),
     last_index |-> Len(events_list)]

\* lines 258-268
get_events_response(events_list, since, limit) ==
    LET new_events == Slice(events_list, since, since + limit)
    IN  [events |-> new_events,
         count |-> Len(events_list),
         last_index |-> Min(since + Len(new_events), Len(events_list))]

get_events(since, limit) ==
    LET r == get_events_response(event_queue, since, limit)
    IN  /\ response' = [op |-> "get_events", since |-> since, limit |-> limit,
                    events |-> r.events, count |-> r.count,
                    last_index |-> r.last_index]
        /\ UNCHANGED <<session_states, session_keys, event_queue, next_oid, tasks,
                       ops, appendLog, cleared,
                   poller>>

-----------------------------------------------------------------------------
(* get_active_sessions, get_session_details, get_stats, clear_events *)

\* lines 344-352
session_summary(session_id) ==
    LET state == session_states[session_id]
    IN  [session_id |-> session_id, state |-> state.state,
         last_transcript |-> state.current_transcript,
         last_response |-> state.last_response,
         event_count |-> Len(state.event_history)]

\* lines 339-358
get_active_sessions ==
    /\ response' = [op |-> "get_active_sessions",
                sessions |-> [i \in 1 .. Len(session_keys) |->
                                 session_summary(session_keys[i])],
                count |-> Len(session_keys)]
    /\ UNCHANGED <<session_states, session_keys, event_queue, next_oid, tasks,
                   ops, appendLog, cleared,
                   poller>>

\* lines 361-375
get_session_details(session_id) ==
    /\ response' = IF ~InRegistry(session_id)
               THEN [op |-> "get_session_details", session_id |-> session_id,
                     status |-> 404]
               ELSE LET state == session_states[session_id]
                    IN  [op |-> "get_session_details", session_id |-> session_id,
                         status |-> 200, state |-> state.state,
                         current_transcript |-> state.current_transcript,
                         last_response |-> state.last_response,
                         event_history |-> Tail_n(state.event_history, HistoryTail)]
    /\ UNCHANGED <<session_states, session_keys, event_queue, next_oid, tasks,
                   ops, appendLog, cleared,
                   poller>>

EventTypes == {"app_activated", "app_deactivated", "voice_input", "display_request"}

\* lines 381-384: the number of queued records of each type that occurs
count_types(q) ==
    LET present == {q[i].type : i \in 1 .. Len(q)}
    IN  [ty \in present |-> Cardinality({i \in 1 .. Len(q) : q[i].type = ty})]

\* lines 378-394
get_stats ==
    /\ response' = [op |-> "get_stats", total_events |-> Len(event_queue),
                event_types |-> count_types(event_queue),
                active_sessions |-> Len(session_keys),
                queue_capacity |-> QueueCap]
    /\ UNCHANGED <<session_states, session_keys, event_queue, next_oid, tasks,
                   ops, appendLog, cleared,
                   poller>>

\* a clear that empties the event_history of every session as well
clear_events_with_histories ==
    /\ Admit
    /\ event_queue' = <<>>
    /\ session_states' =
          [s \in SessionIds |->
              IF session_states[s] = NoSession THEN NoSession
              ELSE [session_states[s] EXCEPT !.event_history = <<>>]]
    /\ cleared' = Len(appendLog)
    /\ ops' = ops + 1
    /\ response' = [op |-> "clear_events", status |-> "cleared"]
    /\ UNCHANGED <<session_keys, next_oid, tasks, appendLog, poller>>

\* lines 397-402
clear_events ==
    /\ Admit
    /\ event_queue' = <<>>
    /\ cleared' = Len(appendLog)
    /\ ops' = ops + 1
    /\ response' = [op |-> "clear_events", status |-> "cleared"]
    /\ UNCHANGED <<session_states, session_keys, next_oid, tasks, appendLog, poller>>

-----------------------------------------------------------------------------
\* the steps that change the registry or the queue
Handlers ==
    \/ \E sid \in SessionIds, uid \in UserIds : handle_session_start(sid, uid)
    \/ \E t \in TaskIds : session_start_resume(t)
    \/ \E sid \in SessionIds : handle_session_end(sid)
    \/ \E sid \in SessionIds, text \in Chunks, is_final \in BOOLEAN :
          handle_transcription(sid, text, is_final)
    \/ \E t \in TaskIds : transcription_resume(t)
    \/ \E text \in Texts, sid \in SessionIds \cup {NONE} : display_text(text, sid)
    \/ \E t \in TaskIds : display_resume(t)
    \/ clear_events

\* the steps that only read
Reads ==
    \/ \E since \in Sinces, limit \in Limits : get_events(since, limit)
    \/ get_active_sessions
    \/ \E sid \in SessionIds : get_session_details(sid)
    \/ get_stats

Next == Handlers \/ Reads

Spec == Init /\ [][Next]_vars

-----------------------------------------------------------------------------
(* The polling client of get_events (the PhoneGPT iOS app, lines 251-256): it
   polls from index 0 and goes on from the last_index of the answer. *)

\* the answer to get_events(since, limit), with the number of records appended
\* and the position of the last clear when it was given
Polled(since, limit) ==
    LET r == get_events_response(event_queue, since, limit)
    IN  [since |-> since, limit |-> limit, events |-> r.events, count |-> r.count,
         last_index |-> r.last_index,
         appended |-> Len(appendLog), cleared |-> cleared]

client_poll(since, limit) ==
    /\ poller' = Append(poller, Polled(since, limit))
    /\ response' = [op |-> "get_events", since |-> since, limit |-> limit,
                    events |-> Polled(since, limit).events,
                    count |-> Polled(since, limit).count,
                    last_index |-> Polled(since, limit).last_index]
    /\ UNCHANGED <<session_states, session_keys, event_queue, next_oid, tasks,
                   ops, appendLog, cleared>>

client_first_poll(limit) ==
    /\ Len(poller) = 0
    /\ client_poll(0, limit)

client_next_poll ==
    /\ Len(poller) = 1
    /\ client_poll(poller[1].last_index, poller[1].limit)

\* the steps of the handlers that change the registry or the queue, and the
\* polls of the client
NextPoll ==
    \/ \E sid \in SessionIds, uid \in UserIds : handle_session_start(sid, uid)
    \/ \E t \in TaskIds : session_start_resume(t)
    \/ \E sid \in SessionIds : handle_session_end(sid)
    \/ \E sid \in SessionIds, text \in Chunks : transcription_partial(sid, text)
    \/ \E sid \in SessionIds, text \in Chunks : transcription_final(sid, text)
    \/ \E t \in TaskIds : transcription_resume(t)
    \/ \E text \in Texts, sid \in SessionIds \cup {NONE} : display_begin(text, sid)
    \/ \E t \in TaskIds : display_resume(t)
    \/ clear_events
    \/ \E limit \in Limits : client_first_poll(limit)
    \/ client_next_poll

SpecPoll == Init /\ [][NextPoll]_vars

-----------------------------------------------------------------------------
(* get_events over queues of more than DefaultLimit records.  The queue of the
   code holds up to CodeQueueCap records; the states below are the ones the
   server is in after a session start, a clear_events and n display requests
   for that session, whose durations (request.get("duration"), line 282) are
   1 .. n and make the records distinct. *)

\* the longest queue looked at
MaxQueueLen == 102

\* deque(maxlen=1000)
CodeQueueCap == 1000

QueueLens == 0 .. Min(MaxQueueLen, CodeQueueCap)
SliceSinces == {0, 1, DefaultLimit, MaxQueueLen, MaxQueueLen + 1}
SliceLimits == {0, 1, DefaultLimit, DefaultLimit + 1, MaxQueueLen + 1}

\* lines 325-329
DisplayRecord(duration) ==
    Event("display_request",
          [text |-> "hello", sessions |-> <<"s1">>, duration |-> duration], NONE)

InitSlice ==
    \E n \in QueueLens :
        LET activated == Event("app_activated",
                               [session_id |-> "s1", user_id |-> "u1"], "s1")
            displays == [i \in 1 .. n |-> DisplayRecord(i)]
        IN  /\ event_queue = displays
            /\ session_states =
                  [s \in SessionIds |->
                      IF s = "s1"
                      THEN [SessionData(1) EXCEPT
                               !.event_history = <<activated>>,
                               !.last_response = IF n > 0 THEN "hello" ELSE "",
                               !.state = IF n > 0 THEN DISPLAYING ELSE LISTENING]
                      ELSE NoSession]
            /\ session_keys = <<"s1">>
            /\ next_oid = 2
            /\ tasks = [t \in TaskIds |-> Idle]
            /\ ops = n + 2
            /\ appendLog = <<activated>> \o displays
            /\ cleared = 1
            /\ response = NoResponse
            /\ poller = <<>>

NextSlice ==
    \E since \in SliceSinces, limit \in SliceLimits : get_events(since, limit)

SpecSlice == InitSlice /\ [][NextSlice]_vars

-----------------------------------------------------------------------------
(* A session with a long event_history.  The states below are the ones the
   server is in after a session start and n final chunks "par" for that
   session, each handled to its end; the queue holds the last QueueCap of the
   records. *)

HistoryLens == 0 .. HistoryTail - 1

\* lines 201-205
VoiceRecord(session_id, transcript_text) ==
    Event("voice_input",
          [transcript |-> transcript_text, session_id |-> session_id,
           is_final |-> TRUE], session_id)

InitHistory ==
    \E n \in HistoryLens :
        LET activated == Event("app_activated",
                               [session_id |-> "s1", user_id |-> "u1"], "s1")
            records == <<activated>> \o [i \in 1 .. n |-> VoiceRecord("s1", "par")]
        IN  /\ session_states =
                  [s \in SessionIds |->
                      IF s = "s1"
                      THEN [SessionData(1) EXCEPT
                               !.event_history = records,
                               !.received = [i \in 1 .. n |-> "par"]]
                      ELSE NoSession]
            /\ session_keys = <<"s1">>
            /\ event_queue =
                  SubSeq(records, Max(1, Len(records) - QueueCap + 1), Len(records))
            /\ next_oid = 2
            /\ tasks = [t \in TaskIds |-> Idle]
            /\ ops = 0
            /\ appendLog = records
            /\ cleared = 0
            /\ response = NoResponse
            /\ poller = <<>>

NextHistory ==
    \/ \E sid \in SessionIds, text \in Chunks, is_final \in BOOLEAN :
          handle_transcription(sid, text, is_final)
    \/ \E t \in TaskIds : transcription_resume(t)
    \/ \E sid \in SessionIds : get_session_details(sid)

SpecHistory == InitHistory /\ [][NextHistory]_vars

-----------------------------------------------------------------------------
(* Properties *)

\* the last n elements of s
LastN(s, n) == SubSeq(s, Len(s) - n + 1, Len(s))

\* the number of records appended since the most recent clear
AppendsSinceClear == Len(appendLog) - cleared

\* C1: after any sequence of add_event and clear_events calls the queue holds
\* at most QueueCap records, and they are exactly the last
\* min(QueueCap, n) records appended since the most recent clear, in append
\* order, n being the number of appends since that clear.
C1_QueueHoldsLastAppended ==
    /\ Len(event_queue) <= QueueCap
    /\ event_queue = LastN(appendLog, Min(QueueCap, AppendsSinceClear))

\* C1 witness: more records than the capacity were appended since the last
\* clear, so the oldest ones were evicted.
C1_Witness ==
    /\ AppendsSinceClear > QueueCap
    /\ Len(event_queue) = QueueCap
    /\ \E i \in 1 .. Len(appendLog) : appendLog[i].type = "display_request"

\* the number of records of appendLog that had left the queue, by a clear or
\* by eviction, when the poll p was answered
QueueBase(p) == Max(p.cleared, p.appended - QueueCap)

\* no record left the queue between the polls p1 and p2
NoLossBetween(p1, p2) == p1.cleared = p2.cleared /\ QueueBase(p1) = QueueBase(p2)

\* C2: a poll from index 0 and a later poll from its last_index with the same
\* limit, with appends in between but no eviction and no clear, return slices
\* that joined are a contiguous run of the append order from the first record
\* of the queue, nothing duplicated, skipped or reordered; the run is the
\* whole queue of the second poll when its size is at most last_index + limit.
C2_PollsJoinContiguously ==
    (Len(poller) = 2 /\ NoLossBetween(poller[1], poller[2])) =>
        LET p1 == poller[1]
            p2 == poller[2]
            joined == p1.events \o p2.events
            base == QueueBase(p1)
        IN  /\ joined = SubSeq(appendLog, base + 1, base + Len(joined))
            /\ p2.count <= p1.last_index + p2.limit =>
                  joined = SubSeq(appendLog, base + 1, p2.appended)

\* C2 witness: two polls with the default limit, a record appended between
\* them, and each poll returned a record.
C2_Witness ==
    /\ Len(poller) = 2
    /\ NoLossBetween(poller[1], poller[2])
    /\ poller[1].limit = DefaultLimit
    /\ poller[2].appended > poller[1].appended
    /\ poller[1].events # <<>>
    /\ poller[2].events # <<>>

\* a second case of C2: the limit cut the first poll short
C2_WitnessLimit ==
    /\ Len(poller) = 2
    /\ NoLossBetween(poller[1], poller[2])
    /\ poller[1].count > poller[1].limit
    /\ poller[2].events # <<>>

-----------------------------------------------------------------------------
\* C3: get_events(since, limit) returns the retained records whose logical
\* index (0-based position in the order of all appends, not lowered by
\* eviction) is >= since, from the first such retained record on, in insertion
\* order, also after the queue has evicted records.  Stated for behaviours
\* without clear_events, where the logical index of a record is its position
\* in appendLog.
C3_SinceIsLogicalIndex ==
    (response.op = "get_events" /\ cleared = 0) =>
        LET oldest == Len(appendLog) - Len(event_queue)
            from == Max(response.since, oldest)
        IN  response.events =
                SubSeq(appendLog, from + 1, Min(from + response.limit, Len(appendLog)))

-----------------------------------------------------------------------------
NoLifecycleSince(n) ==
    \A i \in (n + 1) .. Len(appendLog) :
        appendLog[i].type \notin {"app_activated", "app_deactivated"}

\* the coroutine in slot t is a broadcast display_text that found two sessions
\* in the registry, and no session has started or ended since it began
BroadcastToTwo(t) ==
    /\ tasks[t].pc = "disp_await"
    /\ tasks[t].session_id = NONE
    /\ Len(tasks[t].displayed) + 1 + Len(tasks[t].rest) = 2
    /\ NoLifecycleSince(tasks[t].began.appended)

\* no other coroutine was in flight when the one in slot t began, and no other
\* state-changing handler has been invoked since
Quiet(t) ==
    /\ tasks[t].began.solo
    /\ tasks[t].began.ops = ops
    /\ \A u \in TaskIds \ {t} : tasks[u] = Idle

\* the session carries the text of a display request
Shows(ss, sid, text) ==
    ss[sid].last_response = text /\ ss[sid].state = DISPLAYING

\* C4: with exactly two sessions in the registry and no session start or end
\* during the request, a broadcast display_text with non-empty text sets
\* last_response = text and state = DISPLAYING on each of the two sessions (in
\* the step that follows the display call for it), does not fail, reports both
\* ids as displayed, and appends exactly one display_request record, in its
\* last step; when no other handler ran during the request, both sessions
\* carry the text when it returns.
C4_BroadcastToTwoSessions ==
    [][/\ (\E text \in Texts : display_begin(text, NONE)) => appendLog' = appendLog
       /\ \A t \in TaskIds : BroadcastToTwo(t) =>
             LET task == tasks[t]
             IN  /\ ~display_resume_keyerror(t)
                 /\ display_resume_next(t) =>
                       /\ Shows(session_states', task.sid, task.text)
                       /\ appendLog' = appendLog
                 /\ display_resume_done(t) =>
                       /\ Shows(session_states', task.sid, task.text)
                       /\ response'.status = 200
                       /\ Len(response'.sessions) = 2
                       /\ {response'.sessions[i] : i \in 1 .. 2} =
                             {s \in SessionIds : InRegistry(s)}
                       /\ Len(appendLog') = Len(appendLog) + 1
                       /\ appendLog'[Len(appendLog')].type = "display_request"
                       /\ appendLog'[Len(appendLog')].data.text = task.text
                       /\ appendLog'[Len(appendLog')].data.sessions =
                             response'.sessions
                       /\ Quiet(t) =>
                             \A s \in SessionIds :
                                 Shows(session_states', s, task.text)
      ]_vars

\* C4 witness: a broadcast of "hello" has returned "displayed" for two
\* sessions, both carry the text, and the history holds one display_request.
C4_Witness ==
    /\ response.op = "display_text"
    /\ response.status = 200
    /\ response.session_id = NONE
    /\ Len(response.sessions) = 2
    /\ \A s \in SessionIds : InRegistry(s) /\ Shows(session_states, s, "hello")
    /\ Cardinality({i \in 1 .. Len(appendLog) :
                       appendLog[i].type = "display_request"}) = 1

-----------------------------------------------------------------------------
\* C5: display_text with non-empty text and a session_id that is not in the
\* registry fails with HTTP 404 and changes the state and last_response of no
\* session, whatever other sessions are active.
C5_AbsentTargetNotFound ==
    [][\A text \in Texts, sid \in SessionIds :
          (Truthy(text) /\ ~InRegistry(sid) /\ display_text(text, sid)) =>
              /\ response'.op = "display_text"
              /\ response'.status = 404
              /\ \A s \in SessionIds :
                    InRegistry(s) =>
                        /\ session_states'[s].state = session_states[s].state
                        /\ session_states'[s].last_response =
                              session_states[s].last_response
      ]_vars

\* C5 witness: a display request for an absent session was answered 404 while
\* another session is active.
C5_Witness ==
    /\ response.op = "display_text"
    /\ response.status = 404
    /\ response.text = "hello"
    /\ response.session_id \in SessionIds
    /\ ~InRegistry(response.session_id)
    /\ \E s \in SessionIds : InRegistry(s)

-----------------------------------------------------------------------------
\* a display_request record was appended in the step
AuditAppended(text) ==
    /\ Len(appendLog') = Len(appendLog) + 1
    /\ appendLog'[Len(appendLog')].type = "display_request"
    /\ appendLog'[Len(appendLog')].data.text = text

\* C6 as claimed: every display_text call with non-empty text appends a
\* display_request record whatever branch it takes: a present target, a
\* broadcast, an absent target (404), a broadcast with an empty registry (404).
C6_AuditRegardlessOfOutcome ==
    [][\A text \in Texts, sid \in SessionIds \cup {NONE} :
          /\ (Truthy(text) /\ display_none(text, sid)) => AuditAppended(text)
          /\ \A t \in TaskIds : display_resume_done(t) => AuditAppended(tasks[t].text)
      ]_vars

\* C6 as amended: a display_text call with non-empty text appends exactly one
\* display_request record, naming the sessions it reports, when it returns
\* "displayed"; it appends no record when it fails with 404.
C6_AuditOnlyWhenDisplayed ==
    [][/\ \A text \in Texts, sid \in SessionIds \cup {NONE} :
             display_text(text, sid) => UNCHANGED <<appendLog, event_queue>>
       /\ \A t \in TaskIds :
             /\ display_resume_next(t) => UNCHANGED <<appendLog, event_queue>>
             /\ display_resume_done(t) =>
                   /\ response'.status = 200
                   /\ AuditAppended(tasks[t].text)
                   /\ appendLog'[Len(appendLog')].data.sessions = response'.sessions
                   /\ event_queue' # <<>>
                   /\ event_queue'[Len(event_queue')] = appendLog'[Len(appendLog')]
      ]_vars

\* C6 witness: a display request with non-empty text was answered 404 and the
\* history holds no display_request record.
C6_Witness ==
    /\ response.op = "display_text"
    /\ response.status = 404
    /\ Truthy(response.text)
    /\ \A i \in 1 .. Len(appendLog) : appendLog[i].type # "display_request"

-----------------------------------------------------------------------------
\* the display call a final chunk c2 after a chunk c1 is to issue: the
\* processing message around the first PreviewLen characters of "c1 c2"
PreviewCall(sid, c1, c2) ==
    LET accumulated == c1 \o " " \o c2
        preview == SubSeq(accumulated, 1, Min(PreviewLen, Len(accumulated)))
    IN  [session_id |-> sid, text |-> "Processing:\n\"" \o preview \o "...\"",
         duration_ms |-> ProcessingDuration]

\* C7: for an active session in LISTENING with an empty transcript and no
\* other operation interleaved, a non-final chunk appends its text to
\* current_transcript, leaves the state LISTENING and issues no display call;
\* a following final chunk takes the state to PROCESSING, issues exactly one
\* display call that carries at most the first 50 characters of the transcript
\* of both chunks, and after the call leaves the state LISTENING and
\* current_transcript empty.
C7_PartialThenFinalChunk ==
    [][/\ \A s \in SessionIds, c \in Chunks :
             /\ ( /\ InRegistry(s)
                  /\ session_states[s].state = LISTENING
                  /\ session_states[s].current_transcript = ""
                  /\ handle_transcription(s, c, FALSE) ) =>
                      /\ session_states'[s].current_transcript = " " \o c
                      /\ session_states'[s].state = LISTENING
                      /\ response'.calls = <<>>
                      /\ tasks' = tasks
             /\ \A c1 \in Chunks :
                  ( /\ InRegistry(s)
                    /\ session_states[s].state = LISTENING
                    /\ session_states[s].current_transcript = " " \o c1
                    /\ handle_transcription(s, c, TRUE) ) =>
                        /\ session_states'[s].state = PROCESSING
                        /\ \E t \in TaskIds :
                              /\ tasks[t] = Idle
                              /\ tasks'[t].pc = "tr_await"
                              /\ tasks'[t].calls = <<PreviewCall(s, c1, c)>>
       /\ \A t \in TaskIds :
             (tasks[t].pc = "tr_await" /\ Quiet(t) /\ transcription_resume(t)) =>
                 /\ session_states'[tasks[t].session_id].state = LISTENING
                 /\ session_states'[tasks[t].session_id].current_transcript = ""
                 /\ Len(response'.calls) = 1
                 /\ response'.calls = tasks[t].calls
                 /\ Len(response'.calls[1].text) <= PreviewLen + 18
      ]_vars

\* C7 witness: the final chunk LongChunk after the chunk "par" has been
\* handled: the single display call carries the first 50 characters of
\* "par " \o LongChunk, which is longer, and the session is back in LISTENING
\* with an empty transcript.
C7_Witness ==
    /\ response.op = "handle_transcription"
    /\ response.is_final
    /\ response.handled
    /\ Len("par " \o LongChunk) > PreviewLen
    /\ response.calls = <<PreviewCall(response.session_id, "par", LongChunk)>>
    /\ InRegistry(response.session_id)
    /\ session_states[response.session_id].state = LISTENING
    /\ session_states[response.session_id].current_transcript = ""
    /\ appendLog[Len(appendLog)].type = "voice_input"
    /\ appendLog[Len(appendLog)].data.transcript = "par " \o LongChunk

-----------------------------------------------------------------------------
\* the indices of the session-start and session-end records of a session id
LifecycleRecords(sid) ==
    {i \in 1 .. Len(appendLog) :
        /\ appendLog[i].session_id = sid
        /\ appendLog[i].type \in {"app_activated", "app_deactivated"}}

\* the type of the most recent of them
LastLifecycle(sid) ==
    IF LifecycleRecords(sid) = {} THEN "none"
    ELSE appendLog[CHOOSE i \in LifecycleRecords(sid) :
                      \A j \in LifecycleRecords(sid) : j <= i].type

\* C8: a session id is in session_states exactly when its most recent
\* lifecycle event is a session start (only handle_session_start adds an
\* entry, only handle_session_end removes one, no other handler creates one),
\* and get_session_details answers 404 exactly for the ids that are not in it,
\* so for an id that was started and then ended.
C8_RegistryFollowsLifecycle ==
    /\ \A s \in SessionIds :
          InRegistry(s) <=> LastLifecycle(s) = "app_activated"
    /\ {session_keys[i] : i \in 1 .. Len(session_keys)} =
          {s \in SessionIds : InRegistry(s)}
    /\ response.op = "get_session_details" =>
          /\ response.status = 404 <=> ~InRegistry(response.session_id)
          /\ LastLifecycle(response.session_id) = "app_deactivated" =>
                response.status = 404

\* C8 witness: session start, then session end, then get_session_details for
\* the same id, answered 404.
C8_Witness ==
    /\ response.op = "get_session_details"
    /\ response.status = 404
    /\ \E i, j \in LifecycleRecords(response.session_id) :
          /\ i < j
          /\ appendLog[i].type = "app_activated"
          /\ appendLog[j].type = "app_deactivated"
          /\ j = Len(appendLog)

-----------------------------------------------------------------------------
\* C9 as claimed: handle_session_end for an id that is not in the registry
\* raises nothing and leaves the registry and the event queue as they were.
C9_EndOfUnknownIsNoOp ==
    [][\A s \in SessionIds :
          (~InRegistry(s) /\ handle_session_end(s)) =>
              /\ ~response'.raised
              /\ UNCHANGED <<session_states, session_keys, event_queue>>
      ]_vars

\* C9 as amended: handle_session_end for an id that is not in the registry
\* raises nothing and leaves the registry as it was, and it appends one
\* app_deactivated record for that id to the event queue.
C9_EndOfUnknownOnlyLogs ==
    [][\A s \in SessionIds :
          (~InRegistry(s) /\ handle_session_end(s)) =>
              LET record == [type |-> "app_deactivated",
                             data |-> [session_id |-> s], session_id |-> s]
              IN  /\ ~response'.raised
                  /\ UNCHANGED <<session_states, session_keys>>
                  /\ appendLog' = Append(appendLog, record)
                  /\ event_queue' =
                        LastN(event_queue \o <<record>>,
                              Min(QueueCap, Len(event_queue) + 1))
      ]_vars

\* C9 witness: a session end for an id that was never started has returned,
\* and its record is the newest of the queue.
C9_Witness ==
    /\ response.op = "handle_session_end"
    /\ ~response.raised
    /\ \A i \in LifecycleRecords(response.session_id) :
          appendLog[i].type = "app_deactivated"
    /\ event_queue # <<>>
    /\ event_queue[Len(event_queue)].type = "app_deactivated"
    /\ event_queue[Len(event_queue)].session_id = response.session_id

-----------------------------------------------------------------------------
\* C10: display_text with a missing or empty text fails with HTTP 400 before
\* any effect: no display call, no change of any session, no record appended,
\* whether or not a session_id is given and sessions are active.
C10_EmptyTextRejected ==
    [][\A text \in Texts, sid \in SessionIds \cup {NONE} :
          (~Truthy(text) /\ display_text(text, sid)) =>
              /\ response'.op = "display_text"
              /\ response'.status = 400
              /\ response'.calls = <<>>
              /\ UNCHANGED <<session_states, session_keys, event_queue,
                             appendLog, tasks>>
      ]_vars

\* C10 witness: a display request without text for an active session was
\* answered 400.
C10_Witness ==
    /\ response.op = "display_text"
    /\ response.status = 400
    /\ response.text = ""
    /\ response.session_id \in SessionIds
    /\ InRegistry(response.session_id)

-----------------------------------------------------------------------------
\* one record of the given type for the given session id was appended
AppendedOne(type, sid) ==
    /\ Len(appendLog') = Len(appendLog) + 1
    /\ appendLog'[Len(appendLog')].type = type
    /\ appendLog'[Len(appendLog')].session_id = sid
    /\ event_queue' # <<>>
    /\ event_queue'[Len(event_queue')] = appendLog'[Len(appendLog')]

\* C11 as claimed: each session start, each session end and each transcription
\* chunk for an active session, final or not, grows the append count of the
\* event queue by one.
C11_EveryIngestAppends ==
    [][\A s \in SessionIds :
          /\ (\E u \in UserIds : handle_session_start(s, u)) =>
                Len(appendLog') = Len(appendLog) + 1
          /\ handle_session_end(s) => Len(appendLog') = Len(appendLog) + 1
          /\ \A c \in Chunks, f \in BOOLEAN :
                (InRegistry(s) /\ handle_transcription(s, c, f)) =>
                    Len(appendLog') = Len(appendLog) + 1
      ]_vars

\* C11 as amended: each session start, each session end and each final
\* transcription chunk for an active session appends exactly one record
\* (app_activated, app_deactivated, voice_input) to the event queue; a chunk
\* that is not final appends nothing and only extends current_transcript.
C11_OnlyFinalChunksAppend ==
    [][\A s \in SessionIds :
          /\ (\E u \in UserIds : handle_session_start(s, u)) =>
                AppendedOne("app_activated", s)
          /\ handle_session_end(s) => AppendedOne("app_deactivated", s)
          /\ \A c \in Chunks :
                /\ (InRegistry(s) /\ handle_transcription(s, c, TRUE)) =>
                      AppendedOne("voice_input", s)
                /\ (InRegistry(s) /\ handle_transcription(s, c, FALSE)) =>
                      /\ UNCHANGED <<event_queue, appendLog>>
                      /\ session_states'[s].current_transcript =
                            session_states[s].current_transcript \o " " \o c
      ]_vars

\* C11 witness: a chunk that is not final was handled for an active session
\* and the only record ever appended is the session's app_activated.
C11_Witness ==
    /\ response.op = "handle_transcription"
    /\ response.handled
    /\ ~response.is_final
    /\ InRegistry(response.session_id)
    /\ session_states[response.session_id].current_transcript # ""
    /\ Len(appendLog) = 1
    /\ appendLog[1].type = "app_activated"

-----------------------------------------------------------------------------
-----------------------------------------------------------------------------
\* C13: under every interleaving of display_text with session starts and
\* ends, a display_text with non-empty text completes with a typed result
\* only, displayed (200) or NotFound / NoActiveSessions (404), and never with
\* an unhandled fault (500), also when a session it displays on ends while
\* the display call is awaited.
C13_DisplayTypedResultOnly ==
    (response.op = "display_text" /\ Truthy(response.text)) =>
        response.status \in {200, 404}

-----------------------------------------------------------------------------
\* C14: when a device display call of a display_text request fails, a
\* targeted request surfaces the failure to its caller and does not answer
\* "displayed", while a broadcast request does not fail because of it (it
\* fails only with the fault of a session that has left the registry).
C14_DeviceFailureSurfaced ==
    ( /\ response.op = "display_text"
      /\ \E i \in 1 .. Len(response.shown) : ~response.shown[i] ) =>
        IF Truthy(response.session_id)
        THEN response.status # 200
        ELSE \/ response.status = 200
             \/ /\ response.status = 500
                /\ ~InRegistry(response.sessions[Len(response.sessions)])

-----------------------------------------------------------------------------
\* C15: clear_events empties the event queue and changes nothing else: the
\* registered sessions and every session's state, current_transcript,
\* last_response and event_history are the same after the call as before it,
\* and no handler suspended at an await is affected.
C15_ClearOnlyEmptiesQueue ==
    [][clear_events =>
          /\ event_queue' = <<>>
          /\ UNCHANGED <<session_states, session_keys, tasks>>
      ]_vars

\* C15 witness: clear_events has returned on a queue that held records, and a
\* registered session still has the records of its event_history.
C15_Witness ==
    /\ response.op = "clear_events"
    /\ event_queue = <<>>
    /\ cleared > 0
    /\ \E s \in SessionIds :
          /\ InRegistry(s)
          /\ Len(session_states[s].event_history) >= 2

-----------------------------------------------------------------------------
\* C16: for a queue of n records and every since >= 0 and limit >= 0,
\* get_events returns the records at the 0-based positions
\* since .. min(since + limit, n) - 1 in insertion order (none when
\* since >= n), count = n and last_index = min(since + number of records
\* returned, n), so last_index never exceeds count.
C16_SliceByPosition ==
    response.op = "get_events" =>
        LET n == Len(event_queue)
            upto == Min(response.since + response.limit, n)
            number == IF upto > response.since THEN upto - response.since ELSE 0
        IN  /\ response.events =
                  [i \in 1 .. number |-> event_queue[response.since + i]]
            /\ response.since >= n => response.events = <<>>
            /\ response.count = n
            /\ response.last_index = Min(response.since + number, n)
            /\ response.last_index <= response.count

\* C16 witness: a slice from the inside of the queue, which ends before the
\* end of the queue.
C16_Witness ==
    /\ response.op = "get_events"
    /\ response.since = 1
    /\ response.limit = DefaultLimit
    /\ response.count > response.since + response.limit
    /\ Len(response.events) = DefaultLimit
    /\ response.events[1] = event_queue[2]
    /\ response.last_index = DefaultLimit + 1

\* C16 witness for the empty slice: since is beyond the end of a queue that
\* holds records.
C16_WitnessBeyondEnd ==
    /\ response.op = "get_events"
    /\ event_queue # <<>>
    /\ response.since > Len(event_queue)
    /\ response.events = <<>>
    /\ response.last_index = response.count

-----------------------------------------------------------------------------
\* some registered session is in PROCESSING
SomeProcessing ==
    \E s \in SessionIds : InRegistry(s) /\ session_states[s].state = PROCESSING

\* C17 as claimed: no other operation (get_active_sessions,
\* get_session_details, display_text, another handle_transcription,
\* handle_session_end) executes while a session's state is PROCESSING, so
\* PROCESSING is never observed from outside the handler.
C17_ProcessingNeverObserved ==
    [][( \/ get_active_sessions
         \/ \E sid \in SessionIds : get_session_details(sid)
         \/ \E text \in Texts, sid \in SessionIds \cup {NONE} :
               display_text(text, sid)
         \/ \E sid \in SessionIds, text \in Chunks, is_final \in BOOLEAN :
               handle_transcription(sid, text, is_final)
         \/ \E sid \in SessionIds : handle_session_end(sid) )
       => ~SomeProcessing
      ]_vars

\* C17 as amended: a session is in PROCESSING only while a final-chunk handler
\* of that session object is suspended at its awaited display call; other
\* operations execute during that await and see PROCESSING (get_active_sessions and get_session_details
\* report the state as it is); the handler sets LISTENING when it resumes.
C17_ProcessingWhileDisplayAwaited ==
    /\ \A s \in SessionIds :
          (InRegistry(s) /\ session_states[s].state = PROCESSING) =>
              \E t \in TaskIds :
                  /\ tasks[t].pc = "tr_await"
                  /\ tasks[t].session_id = s
                  /\ tasks[t].oid = session_states[s].oid
    /\ response.op = "get_active_sessions" =>
          \A i \in 1 .. Len(response.sessions) :
              response.sessions[i].state =
                  session_states[response.sessions[i].session_id].state
    /\ (response.op = "get_session_details" /\ response.status = 200) =>
          response.state = session_states[response.session_id].state

\* C17 witness: get_active_sessions has reported a session in PROCESSING.
C17_Witness ==
    /\ response.op = "get_active_sessions"
    /\ \E i \in 1 .. Len(response.sessions) :
          /\ response.sessions[i].state = PROCESSING
          /\ \E t \in TaskIds :
                /\ tasks[t].pc = "tr_await"
                /\ tasks[t].session_id = response.sessions[i].session_id

-----------------------------------------------------------------------------
\* C18: each session's event_history is a bounded list: its length never
\* exceeds a fixed N (the N = 10 of get_session_details), and it holds the N
\* most recent records of the session.
C18_HistoryBounded ==
    \A s \in SessionIds :
        InRegistry(s) =>
            /\ Len(session_states[s].event_history) <= HistoryTail
            /\ \A i \in 1 .. Len(session_states[s].event_history) :
                  session_states[s].event_history[i].session_id = s

-----------------------------------------------------------------------------
\* the texts of a sequence, each after a blank, in one string
RECURSIVE Spaced(_)
Spaced(texts) ==
    IF texts = <<>> THEN ""
    ELSE " " \o Head(texts) \o Spaced(Tail(texts))

\* the transcripts of the voice_input records of a session, in the order in
\* which they were appended
VoiceTranscripts(sid) ==
    LET voice == SelectSeq(session_states[sid].event_history,
                           LAMBDA e : e.type = "voice_input")
    IN  [i \in 1 .. Len(voice) |-> voice[i].data.transcript]

\* no handle_transcription of the session is suspended at its display call
NoTranscriptionPending(sid) ==
    \A t \in TaskIds : ~(tasks[t].pc = "tr_await" /\ tasks[t].session_id = sid)

\* C19: no chunk of an active session is lost, under every interleaving of
\* handle_transcription invocations for it: whenever none of them is in
\* flight, the transcripts of the session's voice_input records in append
\* order, followed by current_transcript, hold every chunk received so far
\* exactly once and in arrival order.
C19_NoChunkLost ==
    \A s \in SessionIds :
        (InRegistry(s) /\ NoTranscriptionPending(s)) =>
            Spaced(VoiceTranscripts(s)) \o session_states[s].current_transcript
                = Spaced(session_states[s].received)

-----------------------------------------------------------------------------
\* the lifecycle records of a session id appended before the i-th record
LifecycleBefore(sid, i) == {j \in LifecycleRecords(sid) : j < i}

\* C20: in the append order of the event queue, under every interleaving of
\* handlers, every voice_input record of a session id comes after an
\* app_activated record of that id with no app_deactivated record of that id
\* in between: none is appended before the id is activated, and none after
\* its app_deactivated record unless a new app_activated record comes first.
C20_VoiceInputWithinLifecycle ==
    \A i \in 1 .. Len(appendLog) :
        appendLog[i].type = "voice_input" =>
            LET sid == appendLog[i].session_id
                before == LifecycleBefore(sid, i)
            IN  /\ before # {}
                /\ appendLog[CHOOSE j \in before : \A k \in before : k <= j].type
                      = "app_activated"

\* C20 witness: a session was started, a final chunk of it was recorded, and
\* the session was ended, in that order.
C20_Witness ==
    /\ Len(appendLog) = 3
    /\ appendLog[1].type = "app_activated"
    /\ appendLog[2].type = "voice_input"
    /\ appendLog[3].type = "app_deactivated"
    /\ appendLog[2].session_id = appendLog[1].session_id
    /\ appendLog[3].session_id = appendLog[1].session_id

\* C20 witness for a chunk after the end: a final chunk for a session that was
\* started and ended is dropped, and no record is appended for it.
C20_WitnessAfterEnd ==
    /\ response.op = "handle_transcription"
    /\ response.is_final
    /\ ~response.handled
    /\ Len(appendLog) = 2
    /\ appendLog[1].type = "app_activated"
    /\ appendLog[2].type = "app_deactivated"
    /\ appendLog[1].session_id = response.session_id
    /\ appendLog[2].session_id = response.session_id

=============================================================================
